---- MODULE Spec2Model ----
(***************************************************************************)
(* A model of the tool handlers of src/server.py (zbigniew-mcp): the       *)
(* edit_file line-operation engine and string replacements, show_file,     *)
(* search_in_file, write_file, execute_shell_command and fetch_page.       *)
(*                                                                         *)
(* Text is a sequence of one-character strings, so that counting,          *)
(* replacing, splitting and joining are computed character by character    *)
(* the way the Python string methods compute them.                         *)
(***************************************************************************)
EXTENDS Integers, Sequences, FiniteSets, TLC

(***************************************************************************)
(* Bounds of the model.                                                    *)
(***************************************************************************)
\* longest file content
MaxLen == 3
\* longest content handed to write_file
MaxWrite == 2
\* most edits (replacement pairs plus line operations) in one edit_file call
MaxEdits == 2

NL == "\n"
CR == "\r"
Chars == {"a", "b", NL}

RECURSIVE SeqsUpTo(_, _)
SeqsUpTo(S, n) ==
    IF n = 0 THEN {<<>>}
    ELSE LET P == SeqsUpTo(S, n - 1)
         IN  P \cup {Append(p, c) : p \in {q \in P : Len(q) = n - 1}, c \in S}

Contents == SeqsUpTo(Chars, MaxLen)

Max(a, b) == IF a >= b THEN a ELSE b
Min(a, b) == IF a <= b THEN a ELSE b

(***************************************************************************)
(* Python string primitives.                                               *)
(***************************************************************************)
\* s[i..] starts with t (i is 1-based)
StartsWithAt(s, i, t) ==
    /\ i + Len(t) - 1 <= Len(s)
    /\ \A k \in 1..Len(t) : s[i + k - 1] = t[k]

\* str.count(old): a left-to-right scan that skips past each match
RECURSIVE CountFrom(_, _, _)
CountFrom(s, old, i) ==
    IF i + Len(old) - 1 > Len(s) THEN 0
    ELSE IF StartsWithAt(s, i, old) THEN 1 + CountFrom(s, old, i + Len(old))
    ELSE CountFrom(s, old, i + 1)

StrCount(s, old) == IF old = <<>> THEN Len(s) + 1 ELSE CountFrom(s, old, 1)

\* str.replace(old, new): every match of the same scan is replaced
RECURSIVE ReplaceFrom(_, _, _, _)
ReplaceFrom(s, old, new, i) ==
    IF i > Len(s) THEN <<>>
    ELSE IF StartsWithAt(s, i, old)
         THEN new \o ReplaceFrom(s, old, new, i + Len(old))
         ELSE <<s[i]>> \o ReplaceFrom(s, old, new, i + 1)

RECURSIVE Interleave(_, _, _)
Interleave(s, new, i) ==
    IF i > Len(s) THEN new ELSE new \o <<s[i]>> \o Interleave(s, new, i + 1)

StrReplace(s, old, new) ==
    IF old = <<>> THEN Interleave(s, new, 1) ELSE ReplaceFrom(s, old, new, 1)

\* Text-mode reading translates "\r\n" and "\r" to "\n" (universal newlines)
RECURSIVE TranslateNewlines(_, _)
TranslateNewlines(d, i) ==
    IF i > Len(d) THEN <<>>
    ELSE IF d[i] = CR
         THEN <<NL>> \o TranslateNewlines(d, IF i < Len(d) /\ d[i + 1] = NL
                                             THEN i + 2 ELSE i + 1)
         ELSE <<d[i]>> \o TranslateNewlines(d, i + 1)

ReadText(d) == TranslateNewlines(d, 1)

\* str.splitlines(): a line ends at "\n", "\r" or "\r\n"; the terminators are
\* dropped and a terminator at the very end opens no further (empty) line
RECURSIVE SplitFrom(_, _, _)
SplitFrom(s, i, cur) ==
    IF i > Len(s) THEN (IF cur = <<>> THEN <<>> ELSE <<cur>>)
    ELSE IF s[i] = NL THEN <<cur>> \o SplitFrom(s, i + 1, <<>>)
    ELSE IF s[i] = CR
         THEN <<cur>> \o SplitFrom(s, IF i < Len(s) /\ s[i + 1] = NL
                                      THEN i + 2 ELSE i + 1, <<>>)
    ELSE SplitFrom(s, i + 1, Append(cur, s[i]))

SplitLines(s) == SplitFrom(s, 1, <<>>)

\* "\n".join(lines)
RECURSIVE JoinFrom(_, _)
JoinFrom(lines, i) ==
    IF i > Len(lines) THEN <<>>
    ELSE IF i = Len(lines) THEN lines[i]
    ELSE lines[i] \o <<NL>> \o JoinFrom(lines, i + 1)

JoinLines(lines) == JoinFrom(lines, 1)

\* list.insert(idx, x) for 0 <= idx <= len
ListInsert(lines, idx, x) ==
    SubSeq(lines, 1, idx) \o <<x>> \o SubSeq(lines, idx + 1, Len(lines))

\* lines[a:b] for 0 <= a <= b <= len
Slice(lines, a, b) == SubSeq(lines, a + 1, b)

(***************************************************************************)
(* edit_file: a line operation is a Python dict.  keys holds the keys that *)
(* are present; a key that is absent reads as the default of op.get.       *)
(* content is a string (list = FALSE, str) or a list of strings (items).   *)
(***************************************************************************)
Str(s) == [list |-> FALSE, str |-> s, items |-> <<>>]
List(l) == [list |-> TRUE, str |-> <<>>, items |-> l]

Op(kind, keys, line, start_line, end_line, content) ==
    [operation |-> kind, keys |-> keys, line |-> line,
     start_line |-> start_line, end_line |-> end_line, content |-> content]

\* op.get(key, default) for the integer keys
GetLine(op) == IF "line" \in op.keys THEN op.line ELSE 0
GetStartLine(op) == IF "start_line" \in op.keys THEN op.start_line ELSE 0
GetEndLine(op) == IF "end_line" \in op.keys THEN op.end_line ELSE GetStartLine(op)
GetContent(op) == IF "content" \in op.keys THEN op.content ELSE Str(<<>>)

\* str.lower() on the operation names the model uses
Lower(kind) ==
    CASE kind = "Insert" -> "insert"
      [] kind = "INSERT" -> "insert"
      [] kind = "Replace" -> "replace"
      [] kind = "Delete" -> "delete"
      [] OTHER -> kind

\* the sort key of a line operation
SortKey(op) == -(IF "line" \in op.keys THEN GetLine(op) ELSE GetStartLine(op))

\* sorted(line_operations, key=...): stable, ascending in the key
RECURSIVE SortedInsert(_, _)
SortedInsert(sorted, op) ==
    IF sorted = <<>> THEN <<op>>
    ELSE IF SortKey(sorted[Len(sorted)]) <= SortKey(op) THEN Append(sorted, op)
    ELSE Append(SortedInsert(SubSeq(sorted, 1, Len(sorted) - 1), op),
                sorted[Len(sorted)])

RECURSIVE SortedOpsFrom(_, _, _)
SortedOpsFrom(ops, i, acc) ==
    IF i > Len(ops) THEN acc
    ELSE SortedOpsFrom(ops, i + 1, SortedInsert(acc, ops[i]))

SortedOps(ops) == SortedOpsFrom(ops, 1, <<>>)

\* inserting the strings of a list one after the other from idx on
RECURSIVE InsertAll(_, _, _, _)
InsertAll(lines, idx, items, i) ==
    IF i > Len(items) THEN lines
    ELSE InsertAll(ListInsert(lines, idx + i - 1, items[i]), idx, items, i + 1)

ApplyInsert(lines, op) ==
    LET line_num == GetLine(op)
        new_content == GetContent(op)
        idx == Min(Max(0, line_num - 1), Len(lines))
    IN  [lines |-> IF new_content.list
                   THEN InsertAll(lines, idx, new_content.items, 1)
                   ELSE ListInsert(lines, idx, new_content.str),
         rec |-> [operation |-> "insert", line |-> line_num, success |-> TRUE]]

ApplyReplace(lines, op) ==
    LET line_num == GetLine(op)
        new_content == GetContent(op)
        idx == line_num - 1
    IN  IF 0 <= idx /\ idx < Len(lines)
        THEN [lines |-> [lines EXCEPT ![idx + 1] =
                            IF new_content.list THEN new_content.items
                            ELSE new_content.str],
              rec |-> [operation |-> "replace", line |-> line_num,
                       success |-> TRUE, old_content |-> lines[idx + 1]]]
        ELSE [lines |-> lines,
              rec |-> [operation |-> "replace", line |-> line_num,
                       success |-> FALSE,
                       error |-> [kind |-> "out_of_range", line |-> line_num,
                                  lo |-> 1, hi |-> Len(lines)]]]

ApplyDelete(lines, op) ==
    LET start_line == GetStartLine(op)
        end_line == GetEndLine(op)
        start_idx == Max(0, start_line - 1)
        end_idx == Min(Len(lines), end_line)
    IN  IF start_idx < end_idx
        THEN [lines |-> Slice(lines, 0, start_idx)
                            \o Slice(lines, end_idx, Len(lines)),
              rec |-> [operation |-> "delete", start_line |-> start_line,
                       end_line |-> end_line,
                       lines_deleted |-> end_idx - start_idx, success |-> TRUE,
                       deleted_content |-> Slice(lines, start_idx, end_idx)]]
        ELSE [lines |-> lines,
              rec |-> [operation |-> "delete", start_line |-> start_line,
                       end_line |-> end_line, success |-> FALSE,
                       error |-> [kind |-> "invalid_range",
                                  start_line |-> start_line,
                                  end_line |-> end_line]]]

ApplyUnknown(lines, op) ==
    [lines |-> lines,
     rec |-> [operation |-> Lower(op.operation), success |-> FALSE,
              error |-> [kind |-> "unknown_operation",
                         operation |-> Lower(op.operation)]]]

\* one iteration of the loop over sorted_ops
ApplyLineOp(lines, op) ==
    LET operation_type == Lower(op.operation)
    IN  CASE operation_type = "insert" -> ApplyInsert(lines, op)
          [] operation_type = "replace" -> ApplyReplace(lines, op)
          [] operation_type = "delete" -> ApplyDelete(lines, op)
          [] OTHER -> ApplyUnknown(lines, op)

\* the loop, were it to stop at the first operation that fails
RECURSIVE ApplyLineOps_StopAtFailure(_, _, _, _)
ApplyLineOps_StopAtFailure(sorted_ops, i, trace, performed) ==
    IF i > Len(sorted_ops)
    THEN [lines |-> trace[Len(trace)], trace |-> trace,
          line_ops_performed |-> performed]
    ELSE LET r == ApplyLineOp(trace[Len(trace)], sorted_ops[i])
         IN  IF r.rec.success
             THEN ApplyLineOps_StopAtFailure(sorted_ops, i + 1,
                                             Append(trace, r.lines),
                                             Append(performed, r.rec))
             ELSE [lines |-> r.lines, trace |-> Append(trace, r.lines),
                   line_ops_performed |-> Append(performed, r.rec)]

\* the loop: the line array after every iteration (trace[1] is the array
\* before the first) and the outcome records in the order they are appended
RECURSIVE ApplyLineOps(_, _, _, _)
ApplyLineOps(sorted_ops, i, trace, performed) ==
    IF i > Len(sorted_ops)
    THEN [lines |-> trace[Len(trace)], trace |-> trace,
          line_ops_performed |-> performed]
    ELSE LET r == ApplyLineOp(trace[Len(trace)], sorted_ops[i])
         IN  ApplyLineOps(sorted_ops, i + 1, Append(trace, r.lines),
                          Append(performed, r.rec))

\* the loop over replacements.items(), were it to count every pair in the
\* content as read rather than in the content the earlier pairs left
RECURSIVE ApplyReplacements_CountOnOriginal(_, _, _, _)
ApplyReplacements_CountOnOriginal(replacements, i, trace, counts) ==
    IF i > Len(replacements)
    THEN [content |-> trace[Len(trace)], trace |-> trace,
          replacement_counts |-> counts]
    ELSE LET content == trace[Len(trace)]
             old == replacements[i].old
             new == replacements[i].new
             count == StrCount(trace[1], old)
         IN  IF count > 0
             THEN ApplyReplacements_CountOnOriginal(
                      replacements, i + 1,
                      Append(trace, StrReplace(content, old, new)),
                      (old :> count) @@ counts)
             ELSE ApplyReplacements_CountOnOriginal(
                      replacements, i + 1, Append(trace, content), counts)

\* the loop over replacements.items(): the content before every pair
\* (trace[1] is the content read) and the counts recorded
RECURSIVE ApplyReplacements(_, _, _, _)
ApplyReplacements(replacements, i, trace, counts) ==
    IF i > Len(replacements)
    THEN [content |-> trace[Len(trace)], trace |-> trace,
          replacement_counts |-> counts]
    ELSE LET content == trace[Len(trace)]
             old == replacements[i].old
             new == replacements[i].new
             count == StrCount(content, old)
         IN  IF count > 0
             THEN ApplyReplacements(replacements, i + 1,
                                    Append(trace, StrReplace(content, old, new)),
                                    (old :> count) @@ counts)
             ELSE ApplyReplacements(replacements, i + 1,
                                    Append(trace, content), counts)


(***************************************************************************)
(* State.                                                                  *)
(*   file       the target path: whether it exists, whether its parent     *)
(*              directory exists, and its data                             *)
(*   tmp_pdf    whether fetch_page's temporary PDF exists on disk          *)
(*   call       the tool call being served (its arguments)                 *)
(*   fault      the step of this call at which the environment fails       *)
(*   outcome    "pending", "running" (fetch_page blocked on the browser),  *)
(*              "returned" (a result value) or "raised" (an exception      *)
(*              left the handler)                                          *)
(*   result     the value returned                                         *)
(*   frame      the handler's local variables worth observing              *)
(*   last_write the content of a write_file(path, content, "w") that       *)
(*              succeeded as the call right before this one                *)
(***************************************************************************)
VARIABLES file, tmp_pdf, call, fault, outcome, result, frame, last_write

vars == <<file, tmp_pdf, call, fault, outcome, result, frame, last_write>>

Missing(dir) == [exists |-> FALSE, dir |-> dir, data |-> <<>>]
Present(data) == [exists |-> TRUE, dir |-> TRUE, data |-> data]
Files == {Present(d) : d \in Contents} \cup {Missing(dir) : dir \in BOOLEAN}

NoResult == [success |-> FALSE, none |-> TRUE]
NoFrame == [none |-> TRUE]
NoWrite == [ok |-> FALSE, content |-> <<>>]

(***************************************************************************)
(* edit_file                                                               *)
(***************************************************************************)
EditNotFound ==
    [success |-> FALSE, error |-> "does_not_exist",
     replacements_made |-> <<>>, line_operations_performed |-> <<>>]

EditError ==
    [success |-> FALSE, error |-> "error_editing_file",
     replacements_made |-> <<>>, line_operations_performed |-> <<>>]

\* the try block: read, replace, edit the lines, write back
EditFileBody(f, c, flt) ==
    IF flt = "read"
    THEN [file |-> f, outcome |-> "returned", result |-> EditError,
          frame |-> NoFrame]
    ELSE
    LET original_content == ReadText(f.data)
        rep == IF Len(c.replacements) > 0
               THEN ApplyReplacements(c.replacements, 1, <<original_content>>, <<>>)
               ELSE [content |-> original_content, trace |-> <<original_content>>,
                     replacement_counts |-> <<>>]
        sorted_ops == SortedOps(c.line_operations)
        ops == IF Len(c.line_operations) > 0
               THEN ApplyLineOps(sorted_ops, 1, <<SplitLines(rep.content)>>, <<>>)
               ELSE [lines |-> <<>>, trace |-> <<>>, line_ops_performed |-> <<>>]
        content == IF Len(c.line_operations) > 0 THEN JoinLines(ops.lines)
                   ELSE rep.content
        fr == [content_trace |-> rep.trace, sorted_ops |-> sorted_ops,
               lines_trace |-> ops.trace, original_content |-> original_content]
    IN  IF flt = "write"
        THEN [file |-> f, outcome |-> "returned", result |-> EditError,
              frame |-> fr]
        ELSE [file |-> [f EXCEPT !.data = content], outcome |-> "returned",
              result |-> [success |-> TRUE,
                          original_size |-> Len(original_content),
                          new_size |-> Len(content),
                          changed |-> original_content # content,
                          replacements_made |-> rep.replacement_counts,
                          line_operations_performed |-> ops.line_ops_performed],
              frame |-> fr]

\* the whole handler: the existence check and create_if_missing come first,
\* outside the try block
EditFileRun(f, c, flt) ==
    IF ~f.exists
    THEN IF c.create_if_missing
         THEN IF flt = "mkdir"
              THEN [file |-> f, outcome |-> "raised", result |-> NoResult,
                    frame |-> NoFrame]
              ELSE IF flt = "create"
              THEN [file |-> [f EXCEPT !.dir = TRUE], outcome |-> "raised",
                    result |-> NoResult, frame |-> NoFrame]
              ELSE EditFileBody(Present(<<>>), c, flt)
         ELSE [file |-> f, outcome |-> "returned", result |-> EditNotFound,
               frame |-> NoFrame]
    ELSE EditFileBody(f, c, flt)

EditFile ==
    /\ outcome = "pending"
    /\ call.tool = "edit_file"
    /\ LET r == EditFileRun(file, call, fault)
       IN  /\ file' = r.file
           /\ outcome' = r.outcome
           /\ result' = r.result
           /\ frame' = r.frame
    /\ UNCHANGED <<tmp_pdf, call, fault, last_write>>

(***************************************************************************)
(* The calls of edit_file: its batches are explored one call at a time.    *)
(***************************************************************************)
Pair(old, new) == [old |-> old, new |-> new]

\* replacement pairs: a plain one, its inverse, one whose occurrences can
\* overlap, one that removes line ends, and the empty old string
RepPairs ==
    {Pair(<<"a">>, <<"b">>), Pair(<<"b">>, <<"a">>), Pair(<<"a", "a">>, <<"a">>),
     Pair(<<NL>>, <<>>), Pair(<<>>, <<"b">>)}

\* line operations: every kind, in range and out of range, with and without
\* the optional keys, and kinds that are not lower case or not known
OpSet ==
    {Op("insert", {"line", "content"}, 1, 0, 0, Str(<<"x">>)),
     Op("insert", {"line", "content"}, 2, 0, 0, List(<<<<"x">>, <<"y">>>>)),
     Op("Insert", {"content"}, 0, 0, 0, Str(<<"w">>)),
     Op("replace", {"line", "content"}, 1, 0, 0, Str(<<"z">>)),
     Op("replace", {"line", "content"}, 2, 0, 0, Str(<<"z">>)),
     Op("replace", {"line", "content"}, 0, 0, 0, Str(<<"z">>)),
     Op("delete", {"start_line"}, 0, 1, 0, Str(<<>>)),
     Op("delete", {"start_line", "end_line"}, 0, 1, 2, Str(<<>>)),
     Op("delete", {"start_line", "end_line"}, 0, 2, 1, Str(<<>>)),
     Op("move", {"line"}, 1, 0, 0, Str(<<>>))}

\* a dict has each key once
DistinctOlds(reps) ==
    \A i, j \in 1..Len(reps) : reps[i].old = reps[j].old => i = j

EditCalls ==
    {[tool |-> "edit_file", replacements |-> reps, line_operations |-> ops,
      create_if_missing |-> cim] :
        reps \in {r \in SeqsUpTo(RepPairs, MaxEdits) : DistinctOlds(r)},
        ops \in SeqsUpTo(OpSet, MaxEdits),
        cim \in BOOLEAN}

\* the steps of an edit_file call that can fail
EditFaults(f, c) ==
    {"none", "read", "write"}
        \cup (IF ~f.exists /\ c.create_if_missing THEN {"mkdir", "create"} ELSE {})

\* create_if_missing is read only when the file is missing, so both of its
\* values are drawn there and the default where the file exists
InitEdit ==
    /\ file \in Files
    /\ call \in {c \in EditCalls :
                    /\ Len(c.replacements) + Len(c.line_operations) <= MaxEdits
                    /\ file.exists => ~c.create_if_missing}
    /\ fault \in EditFaults(file, call)
    /\ outcome = "pending"
    /\ result = NoResult
    /\ frame = NoFrame
    /\ last_write = NoWrite
    /\ tmp_pdf = FALSE

NextEdit == EditFile

SpecEdit == InitEdit /\ [][NextEdit]_vars


(***************************************************************************)
(* show_file                                                               *)
(***************************************************************************)
\* lst[a:b] as Python slices: a negative bound counts from the end, both are
\* clamped to the list, and an empty range gives the empty list
SliceBound(n, len) == IF n < 0 THEN Max(0, len + n) ELSE Min(n, len)

PySlice(lst, a, b) ==
    LET lo == SliceBound(a, Len(lst))
        hi == SliceBound(b, Len(lst))
    IN  IF lo >= hi THEN <<>> ELSE SubSeq(lst, lo + 1, hi)

\* the end index, were the 1-based start line taken for the 0-based index
EndIdx_FromStartLine(start_idx, has_num_lines, num_lines, total_lines) ==
    IF ~has_num_lines THEN total_lines
    ELSE Min(start_idx + 1 + num_lines, total_lines)

\* end_idx: the end of the file when num_lines is None, else num_lines
\* further on, and no further than the end of the file
EndIdx(start_idx, has_num_lines, num_lines, total_lines) ==
    IF ~has_num_lines THEN total_lines
    ELSE Min(start_idx + num_lines, total_lines)

ShowFailure(error, total) ==
    [success |-> FALSE, error |-> error, content |-> <<>>, lines_shown |-> 0,
     total_lines |-> total]

ShowFileRun(f, c, flt) ==
    IF ~f.exists
    THEN [result |-> ShowFailure("does_not_exist", 0), frame |-> NoFrame]
    ELSE IF flt = "read"
    THEN [result |-> ShowFailure("error_reading_file", 0), frame |-> NoFrame]
    ELSE
    LET start_line == Max(1, c.start_line)
        all_lines == SplitLines(ReadText(f.data))
        total_lines == Len(all_lines)
        start_idx == start_line - 1
        end_idx == EndIdx(start_idx, c.has_num_lines, c.num_lines, total_lines)
        selected_lines == PySlice(all_lines, start_idx, end_idx)
    IN  IF start_line > total_lines
        THEN [result |-> ShowFailure("beyond_file_length", total_lines),
              frame |-> [all_lines |-> all_lines, selected_lines |-> <<>>]]
        ELSE [result |-> [success |-> TRUE,
                          content |-> JoinLines(selected_lines),
                          lines_shown |-> Len(selected_lines),
                          total_lines |-> total_lines,
                          start_line |-> start_line,
                          end_line |-> start_idx + Len(selected_lines)],
              frame |-> [all_lines |-> all_lines,
                         selected_lines |-> selected_lines]]

ShowFile ==
    /\ outcome = "pending"
    /\ call.tool = "show_file"
    /\ LET r == ShowFileRun(file, call, fault)
       IN  /\ result' = r.result
           /\ frame' = r.frame
    /\ outcome' = "returned"
    /\ UNCHANGED <<file, tmp_pdf, call, fault, last_write>>

(***************************************************************************)
(* search_in_file.  The patterns of the model are literal texts, for which *)
(* regex.search is a substring test, and "(" which does not compile.       *)
(***************************************************************************)
\* iterating over a text file: each "\n" ends a line and stays on it
RECURSIVE FileLinesFrom(_, _, _)
FileLinesFrom(s, i, cur) ==
    IF i > Len(s) THEN (IF cur = <<>> THEN <<>> ELSE <<cur>>)
    ELSE IF s[i] = NL THEN <<Append(cur, NL)>> \o FileLinesFrom(s, i + 1, <<>>)
    ELSE FileLinesFrom(s, i + 1, Append(cur, s[i]))

FileLines(s) == FileLinesFrom(s, 1, <<>>)

\* line.rstrip('\n')
RECURSIVE RStripNL(_)
RStripNL(line) ==
    IF line # <<>> /\ line[Len(line)] = NL
    THEN RStripNL(SubSeq(line, 1, Len(line) - 1))
    ELSE line

\* re.compile(pattern) raises re.error
RegexInvalid(pattern) == \E k \in 1..Len(pattern) : pattern[k] = "("

\* case folding under re.IGNORECASE
Fold(ch) == IF ch = "A" THEN "a" ELSE IF ch = "B" THEN "b" ELSE ch
FoldAll(s) == [k \in 1..Len(s) |-> Fold(s[k])]

\* regex.search(line) for a literal pattern
RegexSearch(pattern, case_sensitive, line) ==
    LET pat == IF case_sensitive THEN pattern ELSE FoldAll(pattern)
        txt == IF case_sensitive THEN line ELSE FoldAll(line)
    IN  \E k \in 1..(Len(txt) + 1) : StartsWithAt(txt, k, pat)

\* the loop over the lines of the file, left at the break
RECURSIVE SearchLoop(_, _, _, _)
SearchLoop(lines, i, c, matches) ==
    IF i > Len(lines) THEN matches
    ELSE IF RegexSearch(c.pattern, c.case_sensitive, lines[i])
         THEN LET found == Append(matches, [line_number |-> i,
                                            content |-> RStripNL(lines[i])])
              IN  IF c.max_matches > 0 /\ Len(found) >= c.max_matches
                  THEN found
                  ELSE SearchLoop(lines, i + 1, c, found)
         ELSE SearchLoop(lines, i + 1, c, matches)

SearchFailure(error) ==
    [success |-> FALSE, error |-> error, matches |-> <<>>, match_count |-> 0]

SearchInFileRun(f, c, flt) ==
    IF ~f.exists THEN SearchFailure("does_not_exist")
    ELSE IF RegexInvalid(c.pattern) THEN SearchFailure("invalid_regular_expression")
    ELSE IF flt = "read" THEN SearchFailure("error_searching_file")
    ELSE LET matches == SearchLoop(FileLines(ReadText(f.data)), 1, c, <<>>)
         IN  [success |-> TRUE, matches |-> matches,
              match_count |-> Len(matches),
              truncated |-> c.max_matches > 0 /\ Len(matches) >= c.max_matches]

SearchInFile ==
    /\ outcome = "pending"
    /\ call.tool = "search_in_file"
    /\ result' = SearchInFileRun(file, call, fault)
    /\ frame' = NoFrame
    /\ outcome' = "returned"
    /\ UNCHANGED <<file, tmp_pdf, call, fault, last_write>>

(***************************************************************************)
(* write_file                                                              *)
(***************************************************************************)
\* open(file_path, mode) fails when the parent directory is missing or the
\* environment refuses; "w" replaces the data and "a" extends it
WriteFileRun(f, c, flt) ==
    IF ~f.dir \/ flt = "write"
    THEN [file |-> f, result |-> [success |-> FALSE, error |-> "os_error"]]
    ELSE [file |-> Present(IF c.mode = "a" THEN f.data \o c.content
                           ELSE c.content),
          result |-> [success |-> TRUE]]

WriteFile ==
    /\ outcome = "pending"
    /\ call.tool = "write_file"
    /\ LET r == WriteFileRun(file, call, fault)
       IN  /\ file' = r.file
           /\ result' = r.result
    /\ frame' = NoFrame
    /\ outcome' = "returned"
    /\ UNCHANGED <<tmp_pdf, call, fault, last_write>>

(***************************************************************************)
(* The dispatcher hands the next call to its handler once the call before  *)
(* has ended; fault is the step of the new call the environment fails.     *)
(***************************************************************************)
NoCall == [tool |-> "none"]

Ended == outcome \in {"idle", "returned", "raised"}

\* the call that just ended was a write_file(path, content, "w") that succeeded
JustWritten ==
    IF outcome = "returned" /\ call.tool = "write_file" /\ result.success
        /\ call.mode = "w"
    THEN [ok |-> TRUE, content |-> call.content]
    ELSE NoWrite

Dispatch(c, flt) ==
    /\ Ended
    /\ call' = c
    /\ fault' = flt
    /\ outcome' = "pending"
    /\ result' = NoResult
    /\ frame' = NoFrame
    /\ last_write' = JustWritten
    /\ UNCHANGED <<file, tmp_pdf>>

ShowCalls ==
    {[tool |-> "show_file", start_line |-> s, has_num_lines |-> h,
      num_lines |-> n] :
        s \in 0..(MaxLen + 1), h \in BOOLEAN, n \in -1..MaxLen}

Patterns == {<<>>, <<"a">>, <<"A">>, <<"(">>}

SearchCalls ==
    {[tool |-> "search_in_file", pattern |-> p, case_sensitive |-> cs,
      max_matches |-> m] :
        p \in Patterns, cs \in BOOLEAN, m \in -1..MaxLen}

WriteCalls ==
    {[tool |-> "write_file", content |-> d, mode |-> m] :
        d \in SeqsUpTo(Chars, MaxWrite), m \in {"w", "a"}}

\* an argument that is absent is not drawn with several values, and an append
\* keeps the file within the longest content of the model
Drawn(c) ==
    CASE c.tool = "show_file" -> c.has_num_lines \/ c.num_lines = 0
      [] c.tool = "write_file" ->
           c.mode = "a" => Len(file.data) + Len(c.content) <= MaxLen
      [] OTHER -> TRUE

FileCalls == ShowCalls \cup SearchCalls \cup WriteCalls

FileFaults(c) ==
    CASE c.tool = "write_file" -> {"none", "write"}
      [] OTHER -> {"none", "read"}

Init ==
    /\ file \in Files
    /\ call = NoCall
    /\ fault = "none"
    /\ outcome = "idle"
    /\ result = NoResult
    /\ frame = NoFrame
    /\ last_write = NoWrite
    /\ tmp_pdf = FALSE

DispatchFileCall ==
    \E c \in FileCalls : \E flt \in FileFaults(c) : Drawn(c) /\ Dispatch(c, flt)

Next == DispatchFileCall \/ ShowFile \/ SearchInFile \/ WriteFile

Spec == Init /\ [][Next]_vars

(***************************************************************************)
(* execute_shell_command.  The environment decides what the child process  *)
(* does: it cannot be launched, it runs past the timeout, it exits with a  *)
(* code other than 0, or it exits with 0.                                  *)
(***************************************************************************)
DefaultTimeout == 60

\* " ".join(command), the words kept apart by the separator
RECURSIVE JoinWords(_, _)
JoinWords(command, i) ==
    IF i > Len(command) THEN <<>>
    ELSE IF i = Len(command) THEN <<command[i]>>
    ELSE <<command[i], " ">> \o JoinWords(command, i + 1)

ShellResult(c, stdout, stderr, exit_code) ==
    [stdout |-> stdout, stderr |-> stderr, exit_code |-> exit_code,
     command |-> JoinWords(c.command, 1), success |-> exit_code = 0]

ExecuteShellCommandRun(c, flt) ==
    CASE flt = "timeout" -> ShellResult(c, "", "timed_out", -1)
      [] flt = "launch" -> ShellResult(c, "", "error_executing_command", -1)
      [] flt = "exit_nonzero" -> ShellResult(c, "out", "err", 1)
      [] OTHER -> ShellResult(c, "out", "", 0)

ExecuteShellCommand ==
    /\ outcome = "pending"
    /\ call.tool = "execute_shell_command"
    /\ result' = ExecuteShellCommandRun(call, fault)
    /\ frame' = NoFrame
    /\ outcome' = "returned"
    /\ UNCHANGED <<file, tmp_pdf, call, fault, last_write>>

(***************************************************************************)
(* fetch_page.  The handler blocks on the browser process, so it is two    *)
(* steps: up to the launch of the browser, and from its exit on.           *)
(***************************************************************************)
\* the finally block, were it an epilogue that only a normal return reaches
FinallyUnlink_OnlyOnReturn(exists, raising) == IF raising THEN exists ELSE FALSE

\* the finally block: the temporary file is unlinked, whether the try block
\* returns or raises; the value is whether the file exists afterwards
FinallyUnlink(exists, raising) == FALSE

FetchError == [kind |-> "error", text |-> "Error fetching page: stderr"]
FetchText == [kind |-> "text", text |-> "page text"]

\* NamedTemporaryFile(delete=False), then subprocess.run is entered
FetchPageStart ==
    /\ outcome = "pending"
    /\ call.tool = "fetch_page"
    /\ result' = NoResult
    /\ IF fault = "tmpfile"
       THEN /\ outcome' = "raised"
            /\ frame' = [tmp_created |-> FALSE]
            /\ tmp_pdf' = tmp_pdf
       ELSE /\ frame' = [tmp_created |-> TRUE]
            /\ IF fault = "launch"
               THEN /\ outcome' = "raised"
                    /\ tmp_pdf' = FinallyUnlink(TRUE, TRUE)
               ELSE /\ outcome' = "running"
                    /\ tmp_pdf' = TRUE
    /\ UNCHANGED <<file, call, fault, last_write>>

\* the browser has exited: the return code is tested, the PDF is converted,
\* and the finally block runs
FetchPageFinish ==
    /\ outcome = "running"
    /\ call.tool = "fetch_page"
    /\ IF fault = "exit_nonzero"
       THEN /\ outcome' = "returned"
            /\ result' = FetchError
            /\ tmp_pdf' = FinallyUnlink(tmp_pdf, FALSE)
       ELSE IF fault = "convert"
       THEN /\ outcome' = "raised"
            /\ result' = NoResult
            /\ tmp_pdf' = FinallyUnlink(tmp_pdf, TRUE)
       ELSE /\ outcome' = "returned"
            /\ result' = FetchText
            /\ tmp_pdf' = FinallyUnlink(tmp_pdf, FALSE)
    /\ UNCHANGED <<file, call, fault, frame, last_write>>

Commands == {<<"ls", "-la">>, <<"uname", "-a">>, <<"python", "analysis.py">>}

ShellCalls ==
    {[tool |-> "execute_shell_command", command |-> cmd, timeout |-> t,
      working_dir |-> wd] :
        cmd \in Commands, t \in {DefaultTimeout, 1}, wd \in {"None", "/tmp"}}

FetchCalls ==
    {[tool |-> "fetch_page", url |-> u] :
        u \in {"http://a", "http://b", "file:///c"}}

ProcCalls == ShellCalls \cup FetchCalls

ProcFaults(c) ==
    CASE c.tool = "fetch_page" ->
           {"none", "tmpfile", "launch", "exit_nonzero", "convert"}
      [] OTHER -> {"none", "launch", "timeout", "exit_nonzero"}

InitProc ==
    /\ file = Missing(TRUE)
    /\ call = NoCall
    /\ fault = "none"
    /\ outcome = "idle"
    /\ result = NoResult
    /\ frame = NoFrame
    /\ last_write = NoWrite
    /\ tmp_pdf = FALSE

DispatchProcCall ==
    \E c \in ProcCalls : \E flt \in ProcFaults(c) : Dispatch(c, flt)

NextProc ==
    DispatchProcCall \/ ExecuteShellCommand \/ FetchPageStart \/ FetchPageFinish

SpecProc == InitProc /\ [][NextProc]_vars

(***************************************************************************)
(* Properties of edit_file, under SpecEdit.                                *)
(***************************************************************************)
\* an edit_file call that returned its summary
EditDone == outcome = "returned" /\ call.tool = "edit_file" /\ result.success

\* an edit_file call that returned its summary after running the line loop
EditRanOps == EditDone /\ Len(call.line_operations) > 0

Performed(k) == result.line_operations_performed[k]
KindOf(op) == Lower(op.operation)

\* the line at position p of the array before step k is the line that was at
\* position p before the first step, possibly overwritten in place since
SameSlot(k, p) ==
    LET orig == frame.lines_trace[1]
        cur == frame.lines_trace[k]
    IN  /\ p <= Len(cur)
        /\ p <= Len(orig)
        /\ \/ cur[p] = orig[p]
           \/ \E j \in 1..(k - 1) :
                /\ KindOf(frame.sorted_ops[j]) = "replace"
                /\ GetLine(frame.sorted_ops[j]) = p
                /\ Performed(j).success
                /\ cur[p] = GetContent(frame.sorted_ops[j]).str

InsertedBlock(op) ==
    IF GetContent(op).list THEN GetContent(op).items ELSE <<GetContent(op).str>>

\* step k acts on the lines that carried its line numbers before the first step
ActsOnOriginalLines(k) ==
    LET orig == frame.lines_trace[1]
        cur == frame.lines_trace[k]
        op == frame.sorted_ops[k]
        rec == Performed(k)
    IN  CASE KindOf(op) = "replace" ->
               /\ rec.success <=> GetLine(op) \in 1..Len(orig)
               /\ rec.success => SameSlot(k, GetLine(op))
          [] KindOf(op) = "delete" ->
               LET s == Max(0, GetStartLine(op) - 1)
                   e == Min(Len(orig), GetEndLine(op))
               IN  /\ rec.success <=> s < e
                   /\ rec.success =>
                        /\ rec.lines_deleted = e - s
                        /\ \A p \in (s + 1)..e : SameSlot(k, p)
          [] KindOf(op) = "insert" ->
               LET q == Min(Max(0, GetLine(op) - 1), Len(orig))
               IN  /\ q <= Len(cur)
                   /\ frame.lines_trace[k + 1] =
                        SubSeq(orig, 1, q) \o InsertedBlock(op)
                            \o SubSeq(cur, q + 1, Len(cur))
          [] OTHER -> TRUE

\* C1: in every batch of line operations each operation acts on exactly the
\* lines that carried its line numbers in the line array as it stood before
\* the first operation of the batch, whatever the order of the input: no
\* operation shifts the lines another operation of the batch targets.
C1_OpsActOnOriginalLines ==
    EditRanOps => \A k \in 1..Len(frame.sorted_ops) : ActsOnOriginalLines(k)

\* the operation fails on the line array it meets
FailsOn(lines, op) ==
    CASE KindOf(op) = "insert" -> FALSE
      [] KindOf(op) = "replace" -> GetLine(op) \notin 1..Len(lines)
      [] KindOf(op) = "delete" ->
           ~(Max(0, GetStartLine(op) - 1) < Min(Len(lines), GetEndLine(op)))
      [] OTHER -> TRUE

\* the number of times op occurs in ops
Occurrences(ops, op) == Cardinality({i \in 1..Len(ops) : ops[i] = op})

\* what a line operation that does not fail does to the array
AppliedTo(before, after, op, rec) ==
    CASE KindOf(op) = "insert" ->
           Len(after) = Len(before) + Len(InsertedBlock(op))
      [] KindOf(op) = "replace" ->
           /\ Len(after) = Len(before)
           /\ after[GetLine(op)] = GetContent(op).str
           /\ rec.old_content = before[GetLine(op)]
      [] KindOf(op) = "delete" ->
           /\ Len(after) = Len(before) - rec.lines_deleted
           /\ rec.lines_deleted > 0
      [] OTHER -> FALSE

\* C2: a line operation that fails (a Replace outside 1..current length, a
\* Delete whose clamped range is empty, an unknown kind) leaves the line array
\* as it was and is recorded with success = FALSE (a Replace with the range
\* 1-<current length>); the batch goes on: every operation of the input is
\* run, there is one outcome record per operation, every other operation is
\* applied, and the file is written with overall success = TRUE.
C2_FailedOpDoesNotAbort ==
    (outcome = "returned" /\ call.tool = "edit_file" /\ fault = "none"
        /\ (file.exists \/ call.create_if_missing)
        /\ Len(call.line_operations) > 0)
    => /\ result.success
       /\ Len(result.line_operations_performed) = Len(call.line_operations)
       /\ Len(frame.sorted_ops) = Len(call.line_operations)
       /\ Len(frame.lines_trace) = Len(call.line_operations) + 1
       /\ \A op \in OpSet :
            Occurrences(frame.sorted_ops, op)
                = Occurrences(call.line_operations, op)
       /\ \A k \in 1..Len(frame.sorted_ops) :
            LET before == frame.lines_trace[k]
                after == frame.lines_trace[k + 1]
                op == frame.sorted_ops[k]
                rec == Performed(k)
            IN  IF FailsOn(before, op)
                THEN /\ after = before
                     /\ rec.success = FALSE
                     /\ KindOf(op) = "replace" =>
                            /\ rec.error.lo = 1
                            /\ rec.error.hi = Len(before)
                ELSE /\ rec.success = TRUE
                     /\ AppliedTo(before, after, op, rec)
       /\ file.exists
       /\ file.data = JoinLines(frame.lines_trace[Len(frame.lines_trace)])

\* a batch in which an operation failed and an operation after it was applied
C2_Witness ==
    /\ EditRanOps
    /\ Len(frame.sorted_ops) = 2
    /\ ~Performed(1).success
    /\ Performed(2).success
    /\ frame.lines_trace[3] # frame.lines_trace[2]
    /\ frame.lines_trace[2] = frame.lines_trace[1]

\* C3: an edit_file call with no string replacements whose only line
\* operation is a Delete that fails (start line above end line after clamping)
\* leaves the content unchanged: what is written back is what the file held
\* before the call, and the result reports changed = FALSE.
C3_FailedDeleteKeepsContent ==
    (EditRanOps
        /\ Len(call.replacements) = 0
        /\ Len(call.line_operations) = 1
        /\ KindOf(call.line_operations[1]) = "delete"
        /\ ~Performed(1).success)
    => /\ file.data = frame.original_content
       /\ result.changed = FALSE

\* the largest number of occurrences of old in s no two of which overlap
\* (occurrences of a string of at most one character never overlap)
MaxNonOverlap(s, old) ==
    LET Occ == {i \in 1..(Len(s) + 1) : StartsWithAt(s, i, old)}
        Apart(S) == \A p, q \in S : p < q => q - p >= Len(old)
    IN  IF Len(old) <= 1 THEN Cardinality(Occ)
        ELSE CHOOSE n \in 0..Cardinality(Occ) :
               /\ \E S \in SUBSET Occ : Apart(S) /\ Cardinality(S) = n
               /\ \A S \in SUBSET Occ : Apart(S) => Cardinality(S) <= n

\* the olds among the first k pairs
OldsUpTo(reps, k) == {reps[i].old : i \in 1..k}

\* C4: the replacement pairs are applied one at a time in the order given,
\* each on the content the earlier pairs left: the count recorded for a pair
\* is the number of non-overlapping occurrences of old in the content just
\* before the pair, all of them are replaced by new, a pair with no
\* occurrence has no entry, and the content that results is the plain
\* sequential substring replacement.
C4_ReplacementsInOrder ==
    (EditDone /\ Len(call.replacements) > 0)
    => LET reps == call.replacements
           made == result.replacements_made
           trace == frame.content_trace
       IN  /\ Len(trace) = Len(reps) + 1
           /\ trace[1] = frame.original_content
           /\ DOMAIN made \subseteq OldsUpTo(reps, Len(reps))
           /\ \A k \in 1..Len(reps) :
                LET n == MaxNonOverlap(trace[k], reps[k].old)
                IN  /\ reps[k].old \in DOMAIN made <=> n > 0
                    /\ n > 0 => made[reps[k].old] = n
                    /\ trace[k + 1] = StrReplace(trace[k], reps[k].old, reps[k].new)
                    /\ Len(trace[k + 1]) =
                         Len(trace[k]) + n * (Len(reps[k].new) - Len(reps[k].old))
           /\ Len(call.line_operations) = 0 => file.data = trace[Len(trace)]

\* two pairs, the second of which finds occurrences only the first one made
C4_Witness ==
    /\ EditDone
    /\ Len(call.replacements) = 2
    /\ Len(call.line_operations) = 0
    /\ call.replacements[2].old \in DOMAIN result.replacements_made
    /\ StrCount(frame.original_content, call.replacements[2].old)
         # result.replacements_made[call.replacements[2].old]
    /\ call.replacements[1].old \in DOMAIN result.replacements_made


(***************************************************************************)
(* Properties of search_in_file, show_file and write_file, under Spec.     *)
(***************************************************************************)
SearchDone ==
    outcome = "returned" /\ call.tool = "search_in_file" /\ result.success

\* the lines of the file and the numbers of those the pattern matches
LinesOfFile == FileLines(file.data)

MatchingLines ==
    {i \in 1..Len(LinesOfFile) :
        RegexSearch(call.pattern, call.case_sensitive, LinesOfFile[i])}

ReturnedLines == {result.matches[j].line_number : j \in 1..Len(result.matches)}

\* C5: search_in_file on a file with K matching lines and a cap m returns the
\* first min(K, m) matching lines in ascending order with their 1-based line
\* numbers when m is not negative, and all K when m is negative; match_count
\* is the number of matches returned.
C5_FirstMatchesUpToCap ==
    SearchDone =>
        LET K == Cardinality(MatchingLines)
            m == call.max_matches
            n == Len(result.matches)
        IN  /\ n = (IF m >= 0 THEN Min(K, m) ELSE K)
            /\ result.match_count = n
            /\ \A j \in 1..n :
                 /\ result.matches[j].line_number \in MatchingLines
                 /\ result.matches[j].content
                      = RStripNL(LinesOfFile[result.matches[j].line_number])
                 /\ j < n => result.matches[j].line_number
                                < result.matches[j + 1].line_number
            /\ ReturnedLines =
                 {i \in MatchingLines :
                     Cardinality({k \in MatchingLines : k < i}) < n}

\* C6: in a successful search_in_file result truncated is TRUE exactly when
\* the file has a matching line that is not among the matches returned.
C6_TruncatedIffCutShort ==
    SearchDone => (result.truncated <=> MatchingLines \ ReturnedLines # {})

ShowDone == outcome = "returned" /\ call.tool = "show_file"

C8_WriteThenShowRoundTrip ==
    (ShowDone /\ last_write.ok /\ fault = "none"
        /\ call.start_line = 1 /\ ~call.has_num_lines)
    => /\ result.success
       /\ frame.selected_lines = SplitLines(last_write.content)
       /\ result.content = JoinLines(SplitLines(last_write.content))
       /\ result.lines_shown = Len(SplitLines(last_write.content))
       /\ result.total_lines = Len(SplitLines(last_write.content))

(***************************************************************************)
(* Properties of the handlers that run a child process, under SpecProc.    *)
(***************************************************************************)
\* the value returned reports a failure
ReportsFailure ==
    CASE call.tool = "fetch_page" -> result.kind = "error"
      [] OTHER -> ~result.success

\* C9: at whatever step a handler fails, the call ends by returning a value
\* that reports the failure (success = FALSE, or for fetch_page an
\* error-prefixed string); no call ends with the failure leaving the handler
\* as an unhandled fault.
C9_EveryFailureIsReturned ==
    (outcome \in {"returned", "raised"} /\ fault # "none")
    => (outcome = "returned" /\ ReportsFailure)

====
